---- MODULE Spec2Model ----
(***************************************************************************)
(* Response-curve engine of Joystick Gremlin (gremlin/spline.py) and the   *)
(* curve-editing slots of its UI adapter (action_plugins/response_curve).  *)
(*                                                                         *)
(* Numbers.  Python floats are modelled as exact rationals.  A coordinate  *)
(* is stored as an integer count of grid steps of 0.05 (the handle offset  *)
(* of CubicBezierSpline.add_control_point), so the integer c stands for    *)
(* c / Grid.  Results of evaluation are exact fractions over arbitrary     *)
(* precision integers (the lookup tables of the Bezier spline need twelve  *)
(* to fourteen decimal digits, more than TLC's machine integers hold).     *)
(***************************************************************************)
EXTENDS Integers, Sequences, FiniteSets, TLC

\* ------------------------------------------------------------------------
\* Arbitrary precision integers: [s |-> sign, m |-> magnitude], magnitude a
\* little-endian sequence of limbs in base 10^3 without leading zero limbs.
\* ------------------------------------------------------------------------
Base == 10^3

SetMax(S) == CHOOSE m \in S : \A k \in S : k <= m
SetMin(S) == CHOOSE m \in S : \A k \in S : m <= k

MagNorm(m) == SubSeq(m, 1, SetMax({0} \cup {i \in 1..Len(m) : m[i] # 0}))

RECURSIVE MagOfNat(_)
MagOfNat(n) ==
    IF n = 0 THEN <<>> ELSE <<n % Base>> \o MagOfNat(n \div Base)

MagCmp(a, b) ==
    IF Len(a) < Len(b) THEN -1
    ELSE IF Len(a) > Len(b) THEN 1
    ELSE LET diff == {i \in 1..Len(a) : a[i] # b[i]}
         IN  IF diff = {} THEN 0
             ELSE IF a[SetMax(diff)] < b[SetMax(diff)] THEN -1 ELSE 1

Limb(a, i) == IF i <= Len(a) THEN a[i] ELSE 0

\* digits of the limb-wise sums/differences/products cols, carries propagated
RECURSIVE Carry(_, _, _)
Carry(cols, k, c) ==
    IF k > Len(cols) THEN MagOfNat(c)
    ELSE LET t == cols[k] + c
         IN  <<t % Base>> \o Carry(cols, k + 1, t \div Base)

RECURSIVE Borrow(_, _, _)
Borrow(cols, k, c) ==
    IF k > Len(cols) THEN <<>>
    ELSE LET t == cols[k] - c
         IN  <<(t + Base) % Base>> \o Borrow(cols, k + 1, IF t < 0 THEN 1 ELSE 0)

MagAdd(a, b) ==
    Carry([i \in 1..SetMax({Len(a), Len(b)}) |-> Limb(a, i) + Limb(b, i)], 1, 0)

\* a - b for a >= b
MagSub(a, b) == MagNorm(Borrow([i \in 1..Len(a) |-> a[i] - Limb(b, i)], 1, 0))

RECURSIVE ColSum(_, _, _, _)
ColSum(a, b, k, i) ==
    IF i = 0 THEN 0
    ELSE (IF k + 1 - i <= Len(b) THEN a[i] * b[k + 1 - i] ELSE 0)
         + ColSum(a, b, k, i - 1)

MagMul(a, b) ==
    IF a = <<>> \/ b = <<>> THEN <<>>
    ELSE MagNorm(Carry([k \in 1..Len(a) + Len(b) - 1 |->
                          ColSum(a, b, k, IF k < Len(a) THEN k ELSE Len(a))], 1, 0))

BigZero == [s |-> 0, m |-> <<>>]
Big(n) ==
    IF n = 0 THEN BigZero
    ELSE IF n > 0 THEN [s |-> 1, m |-> MagOfNat(n)]
    ELSE [s |-> -1, m |-> MagOfNat(-n)]
BigNeg(a) == [s |-> -a.s, m |-> a.m]
BigAddSigned(a, b, c) ==
    IF c = 0 THEN BigZero
    ELSE IF c > 0 THEN [s |-> a.s, m |-> MagSub(a.m, b.m)]
    ELSE [s |-> b.s, m |-> MagSub(b.m, a.m)]
BigAdd(a, b) ==
    IF a.s = 0 THEN b
    ELSE IF b.s = 0 THEN a
    ELSE IF a.s = b.s THEN [s |-> a.s, m |-> MagAdd(a.m, b.m)]
    ELSE BigAddSigned(a, b, MagCmp(a.m, b.m))
BigSub(a, b) == BigAdd(a, BigNeg(b))
BigMul(a, b) ==
    IF a.s = 0 \/ b.s = 0 THEN BigZero
    ELSE [s |-> a.s * b.s, m |-> MagMul(a.m, b.m)]
BigLt(a, b) == BigSub(a, b).s < 0
BigLe(a, b) == BigSub(a, b).s <= 0

\* ------------------------------------------------------------------------
\* Exact fractions [n |-> Big, d |-> Big], d > 0, compared by cross
\* multiplication.  Fractions are not reduced, except that common factors
\* Base^k are dropped and 0 is always 0/1.
\* ------------------------------------------------------------------------
LowZeros(m) == SetMin({i \in 1..Len(m) : m[i] # 0}) - 1
DropLimbs(n, d, k) ==
    [n |-> [s |-> n.s, m |-> SubSeq(n.m, k + 1, Len(n.m))],
     d |-> [s |-> d.s, m |-> SubSeq(d.m, k + 1, Len(d.m))]]
Frac(n, d) ==
    IF n.s = 0 THEN [n |-> BigZero, d |-> [s |-> 1, m |-> <<1>>]]
    ELSE DropLimbs(n, d, SetMin({LowZeros(n.m), LowZeros(d.m)}))
FracSigned(n, d) == IF d.s > 0 THEN Frac(n, d) ELSE Frac(BigNeg(n), BigNeg(d))
Rat(a, b) == FracSigned(Big(a), Big(b))
RatInt(a) == Rat(a, 1)
RatAdd(p, q) ==
    IF p.d = q.d THEN [n |-> BigAdd(p.n, q.n), d |-> p.d]
    ELSE Frac(BigAdd(BigMul(p.n, q.d), BigMul(q.n, p.d)), BigMul(p.d, q.d))
RatNeg(p) == [n |-> BigNeg(p.n), d |-> p.d]
RatSub(p, q) == RatAdd(p, RatNeg(q))
RatMul(p, q) == Frac(BigMul(p.n, q.n), BigMul(p.d, q.d))
RatIsZero(p) == p.n.s = 0
\* p / q for q # 0
RatDiv(p, q) ==
    IF p.d = q.d THEN FracSigned(p.n, q.n)
    ELSE FracSigned(BigMul(p.n, q.d), BigMul(p.d, q.n))
RatEq(p, q) == BigMul(p.n, q.d) = BigMul(q.n, p.d)
RatLt(p, q) == BigLt(BigMul(p.n, q.d), BigMul(q.n, p.d))
RatLe(p, q) == BigLe(BigMul(p.n, q.d), BigMul(q.n, p.d))

\* ------------------------------------------------------------------------
\* Scales and program constants
\* ------------------------------------------------------------------------
\* grid steps per unit: Point2D(x-0.05, y) / Point2D(x+0.05, y) is one step
Grid == 20
\* _generate_lookup: for j in range(0, 101)
LookupEntries == 101
\* _generate_lookup: step_size = 0.01, t = j * step_size = j / TSteps
TSteps == 100
\* CubicSpline.fit: eps = 0.000001 = 1 / FitEpsInv
FitEpsInv == 1000000
\* CubicSpline.__call__: h = ... + 0.00001 = 1 / CallEpsInv
CallEpsInv == 100000

\* the real number a grid coordinate stands for
Real(c) == Rat(c, Grid)

NoErr == ""
Res(c, e) == [c |-> c, raised |-> e]

\* ------------------------------------------------------------------------
\* Point2D, sorted(..., key=...)
\* ------------------------------------------------------------------------
Point2D(x, y) == [x |-> x, y |-> y]

\* Python's sorted() is stable: the permutation that orders keys ascending
\* and keeps equal keys in their original order (insertion of index i after
\* every index already placed whose key is <= keys[i]).
InsertIdx(perm, keys, i) ==
    LET pos == Cardinality({j \in 1..Len(perm) : keys[perm[j]] <= keys[i]})
    IN  SubSeq(perm, 1, pos) \o <<i>> \o SubSeq(perm, pos + 1, Len(perm))

RECURSIVE PermUpTo(_, _)
PermUpTo(keys, i) ==
    IF i = 0 THEN <<>> ELSE InsertIdx(PermUpTo(keys, i - 1), keys, i)

Unsorted(s, keys) == s

sorted(s, keys) ==
    LET perm == PermUpTo(keys, Len(s))
    IN  [i \in 1..Len(s) |-> s[perm[i]]]

XKeys(points) == [i \in 1..Len(points) |-> points[i].x]

\* util.clamp(value, -1.0, 1.0) on grid coordinates
clamp(v, lo, hi) == IF v < lo THEN lo ELSE IF v > hi THEN hi ELSE v

\* ------------------------------------------------------------------------
\* The curve object.  kind is the class; points/z belong to PiecewiseLinear
\* and CubicSpline, cps/lookup to CubicBezierSpline.
\* ------------------------------------------------------------------------
NoCurve ==
    [kind |-> "None", is_symmetric |-> FALSE, points |-> <<>>, z |-> <<>>,
     cps |-> <<>>, lookup |-> <<>>]

\* ------------------------------------------------------------------------
\* PiecewiseLinear
\* ------------------------------------------------------------------------
PL_default_points == <<Point2D(-Grid, -Grid), Point2D(Grid, Grid)>>

PL_process_points(c, points) ==
    [c EXCEPT !.points = sorted(points, XKeys(points))]

PL_fit(c) == Res([c EXCEPT !.points = sorted(@, XKeys(@))], NoErr)

PL_add_control_point(c, x, y) ==
    LET one == Append(c.points, Point2D(x, y))
        all == IF c.is_symmetric THEN Append(one, Point2D(-x, -y)) ELSE one
    IN  Res([c EXCEPT !.points = sorted(all, XKeys(all))], NoErr)

\* y becomes -|y|
FoldDown(points) ==
    [i \in 1..Len(points) |->
        Point2D(points[i].x, IF points[i].y > 0 THEN -points[i].y ELSE points[i].y)]

NegateY(points) == [i \in 1..Len(points) |-> Point2D(points[i].x, -points[i].y)]

PL_invert(c) == Res([c EXCEPT !.points = NegateY(@)], NoErr)

Unmirrored(points) == points

\* _enforce_symmetry of PiecewiseLinear and of CubicSpline (same body):
\* points[-i-1] becomes the negation of points[i] for i < int(count / 2.0),
\* then an odd middle point is replaced by Point2D(0.0, 0.0).
MirrorPoints(points) ==
    LET count == Len(points)
        half == count \div 2
    IN  [k \in 1..count |->
            IF count % 2 # 0 /\ k = half + 1 THEN Point2D(0, 0)
            ELSE IF k > count - half
                 THEN Point2D(-points[count + 1 - k].x, -points[count + 1 - k].y)
                 ELSE points[k]]

PL_enforce_symmetry(c) == [c EXCEPT !.points = MirrorPoints(@)]

PL_init(points) ==
    LET c0 == [NoCurve EXCEPT !.kind = "PiecewiseLinear"]
        c1 == PL_process_points(c0, points)
    IN  Res(PL_fit(PL_fit(c1).c).c, NoErr)

\* ------------------------------------------------------------------------
\* CubicSpline
\* ------------------------------------------------------------------------
\* An entry of the coefficient list z: the literal 0.0, or the value that
\* fit() computed for index i (0-based) from the sorted point list pts.  The
\* value is a function of pts and i alone and is kept as that term; two
\* entries are known to be equal when they are the same term.  A term is
\* never taken to be zero: a result of __call__ that depends on one is a
\* number only up to that unknown, and counts as equal to no plain number.
\* With two points or fewer every entry is the literal 0.0.
ZeroZ == [pts |-> <<>>, i |-> 0]
Solved(pts, i) == [pts |-> pts, i |-> i]

FitEps == Rat(1, FitEpsInv)
\* h[i] = points[i+1].x - points[i].x         (i is the code's 0-based index)
SplH(P, i) == Real(P[i + 2].x - P[i + 1].x)
\* b[i] = (points[i+1].y - points[i].y) / (h[i] + eps)
SplB(P, i) == RatDiv(Real(P[i + 2].y - P[i + 1].y), RatAdd(SplH(P, i), FitEps))

RECURSIVE SplU(_, _)
SplU(P, i) ==
    IF i = 1 THEN RatMul(RatInt(2), RatAdd(SplH(P, 0), SplH(P, 1)))
    ELSE RatSub(RatMul(RatInt(2), RatAdd(SplH(P, i), SplH(P, i - 1))),
                RatDiv(RatMul(SplH(P, i - 1), SplH(P, i - 1)),
                       RatAdd(SplU(P, i - 1), FitEps)))

\* a zero divisor met by the loops that fill h, b, u and v
RECURSIVE FitLoopsDivideByZero(_, _)
FitLoopsDivideByZero(P, i) ==
    IF i = 0 THEN FALSE
    ELSE \/ FitLoopsDivideByZero(P, i - 1)
         \/ RatIsZero(RatAdd(SplH(P, i - 1), FitEps))
         \/ i >= 2 /\ i <= Len(P) - 2 /\ RatIsZero(RatAdd(SplU(P, i - 1), FitEps))

\* the indices i of the back substitution whose divisor u[i] + eps is zero
RECURSIVE BackZero(_, _)
BackZero(P, i) ==
    IF i = 0 THEN {}
    ELSE BackZero(P, i - 1) \cup
         (IF RatIsZero(RatAdd(SplU(P, i), FitEps)) THEN {i} ELSE {})

CS_default_points == <<Point2D(-Grid, -Grid), Point2D(Grid, Grid)>>

CS_process_points(c, points) ==
    [c EXCEPT !.points = sorted(points, XKeys(points)),
              !.z = [i \in 1..Len(points) |-> ZeroZ]]

\* end conditions z[0] = z[1] and z[n] = z[n-1] in place of the natural ones
CS_back_substitute_open(c, n, bad, stop) ==
    Res([c EXCEPT !.z = [k \in 1..Len(c.z) |->
                           Solved(c.points, IF k - 1 = 0 THEN 1
                                            ELSE IF k - 1 >= n THEN n - 1
                                            ELSE k - 1)]],
        NoErr)

\* the back substitution "for i in range(n - 1, 0, -1)" stops at the largest
\* index in bad; z[0] = 0.0 and the entries below it are then never assigned
CS_back_substitute(c, n, bad, stop) ==
    Res([c EXCEPT !.z =
           [k \in 1..Len(c.z) |->
               IF k - 1 = n THEN ZeroZ
               ELSE IF k - 1 > stop /\ k - 1 < n THEN Solved(c.points, k - 1)
               ELSE IF k - 1 = 0 /\ bad = {} THEN ZeroZ
               ELSE c.z[k]]],
        IF bad = {} THEN NoErr ELSE "ZeroDivisionError")

CS_solve(c, n) ==
    IF n < 2 THEN Res(c, NoErr)
    ELSE IF FitLoopsDivideByZero(c.points, n) THEN Res(c, "ZeroDivisionError")
    ELSE IF Len(c.z) < n + 1 THEN Res(c, "IndexError")
    ELSE CS_back_substitute(c, n, BackZero(c.points, n - 1),
                            SetMax({0} \cup BackZero(c.points, n - 1)))

CS_fit(c) ==
    CS_solve([c EXCEPT !.points = sorted(@, XKeys(@))], Len(c.points) - 1)

CS_add_control_point(c, x, y) ==
    CS_fit([c EXCEPT !.points = Append(@, Point2D(x, y)),
                     !.z = Append(@, ZeroZ)])

\* invert() without the closing fit(), as PiecewiseLinear.invert is written
CS_invert_unfitted(c) == Res([c EXCEPT !.points = NegateY(@)], NoErr)

CS_invert(c) == CS_fit([c EXCEPT !.points = NegateY(@)])

CS_enforce_symmetry(c) == [c EXCEPT !.points = MirrorPoints(@)]

CS_init(points) ==
    CS_fit(CS_process_points([NoCurve EXCEPT !.kind = "CubicSpline"], points))

\* ------------------------------------------------------------------------
\* CubicBezierSpline
\* ------------------------------------------------------------------------
\* A Point2D held by a control point.  listed tells whether the object is an
\* element of self.points, the flat list kept by _process_points: invert()
\* walks that list, and only that list.
Listed(p) == [x |-> p.x, y |-> p.y, listed |-> TRUE]
Fresh(x, y) == [x |-> x, y |-> y, listed |-> FALSE]

\* a handle is <<>> (None) or <<point>>
ControlPoint(center, handle_left, handle_right) ==
    [center |-> center, handle_left |-> handle_left, handle_right |-> handle_right]

BZ_default_points ==
    <<Point2D(-Grid, -Grid), Point2D(1 - Grid, 1 - Grid),
      Point2D(Grid - 1, Grid - 1), Point2D(Grid, Grid)>>

CenterKeys(cps) == [i \in 1..Len(cps) |-> cps[i].center.x]

\* for i in range(2, len(self.points) - 2, 3): the number of iterations
MiddleCount(L) == IF L - 2 > 2 THEN ((L - 5) \div 3) + 1 ELSE 0

\* ControlPoint(self.points[i - 1], self.points[i], self.points[i + 1]) for
\* the m-th iteration, i = 2 + 3 (m - 1); points is 1-based here
MiddleControlPoint(points, m) ==
    LET i == 2 + 3 * (m - 1)
    IN  ControlPoint(Listed(points[i]), <<Listed(points[i + 1])>>,
                     <<Listed(points[i + 2])>>)

BZ_process_points(c, points) ==
    LET L == Len(points)
    IN  IF L < 2 THEN Res(c, "IndexError")
        ELSE Res([c EXCEPT !.cps =
                    <<ControlPoint(Listed(points[1]), <<>>, <<Listed(points[2])>>)>>
                    \o [m \in 1..MiddleCount(L) |-> MiddleControlPoint(points, m)]
                    \o <<ControlPoint(Listed(points[L]), <<Listed(points[L - 1])>>, <<>>)>>],
                 NoErr)

\* _value_at_t for t = j * step_size, one coordinate: p is the sequence of the
\* four coordinates (grid steps).  Powers of t and 1 - t are kept as
\* numerators over powers of TSteps; the result is a fraction over
\* Grid * TSteps^6.
BezierCoord(p, j) ==
    LET t   == j
        t2  == t * t
        t3  == t2 * t
        mt  == TSteps - t
        mt2 == mt * mt
        mt3 == BigMul(BigMul(Big(mt2), Big(mt2)), Big(mt2))
        T3  == Big(TSteps * TSteps * TSteps)
    IN  [n |-> BigAdd(BigAdd(BigMul(Big(p[1]), mt3),
                             BigMul(Big(3 * p[2] * mt2 * t), T3)),
                      BigAdd(BigMul(Big(3 * p[3] * mt * t2), T3),
                             BigMul(Big(p[4] * t3), T3))),
         d |-> BigMul(Big(Grid), BigMul(T3, T3))]

value_at_t(points, j) ==
    [x |-> BezierCoord([k \in 1..4 |-> points[k].x], j),
     y |-> BezierCoord([k \in 1..4 |-> points[k].y], j)]

\* One lookup table: the (t, Point2D) pairs for j = 0 .. n-1, held as the
\* four points they were computed from; entry j is value_at_t(pts, j).
Table(pts, n) == [pts |-> pts, n |-> n]
Plain(p) == Point2D(p.x, p.y)

\* the first consecutive pair (1-based k, k+1) lacking cp1.handle_right or
\* cp2.handle_left, or 0
FirstBrokenPair(cps) ==
    LET bad == {k \in 1..Len(cps) - 1 :
                   cps[k].handle_right = <<>> \/ cps[k + 1].handle_left = <<>>}
    IN  IF bad = {} THEN 0 ELSE CHOOSE k \in bad : \A m \in bad : k <= m

\* the table filled by range(0, 100): the entry for t = 1 is missing
PairTable_short(cps, k) ==
    Table(<<Plain(cps[k].center), Plain(cps[k].handle_right[1]),
            Plain(cps[k + 1].handle_left[1]), Plain(cps[k + 1].center)>>,
          LookupEntries - 1)

PairTable(cps, k) ==
    Table(<<Plain(cps[k].center), Plain(cps[k].handle_right[1]),
            Plain(cps[k + 1].handle_left[1]), Plain(cps[k + 1].center)>>,
          LookupEntries)

\* the tables are appended to the ones already there
lookup_kept(c) ==
    LET f == FirstBrokenPair(c.cps)
    IN  IF f = 0
        THEN Res([c EXCEPT !.lookup = @ \o [k \in 1..Len(c.cps) - 1 |->
                                               PairTable(c.cps, k)]],
                 NoErr)
        ELSE Res([c EXCEPT !.lookup = @ \o [k \in 1..f |->
                                               IF k < f THEN PairTable(c.cps, k)
                                               ELSE Table(<<>>, 0)]],
                 "AttributeError")

\* _generate_lookup: a missing handle raises AttributeError inside
\* _value_at_t for j = 0, after the empty list of that pair was appended.
generate_lookup(c) ==
    LET f == FirstBrokenPair(c.cps)
    IN  IF f = 0
        THEN Res([c EXCEPT !.lookup = [k \in 1..Len(c.cps) - 1 |-> PairTable(c.cps, k)]],
                 NoErr)
        ELSE Res([c EXCEPT !.lookup = [k \in 1..f |->
                                         IF k < f THEN PairTable(c.cps, k)
                                         ELSE Table(<<>>, 0)]],
                 "AttributeError")

BZ_fit(c) == generate_lookup([c EXCEPT !.cps = sorted(@, CenterKeys(@))])

BZ_add_control_point(c, x, y) ==
    BZ_fit([c EXCEPT !.cps = Append(@, ControlPoint(Fresh(x, y),
                                                    <<Fresh(x - 1, y)>>,
                                                    <<Fresh(x + 1, y)>>))])

\* for pt in self.points: pt.y *= -1
InvertListed(p) == IF p.listed THEN [p EXCEPT !.y = -@] ELSE p
InvertHandle(h) == IF h = <<>> THEN <<>> ELSE <<InvertListed(h[1])>>

BZ_invert(c) ==
    BZ_fit([c EXCEPT !.cps =
              [k \in 1..Len(c.cps) |->
                  ControlPoint(InvertListed(c.cps[k].center),
                               InvertHandle(c.cps[k].handle_left),
                               InvertHandle(c.cps[k].handle_right))]])

\* cp2.center - (h - cp1.center), built by Point2D.__sub__
MirrorHandle(center2, h, center1) ==
    Fresh(center2.x - (h.x - center1.x), center2.y - (h.y - center1.y))

MirrorControlPoint(cp1, cp2) ==
    LET center == Fresh(-cp1.center.x, -cp1.center.y)
    IN  ControlPoint(center,
            IF cp1.handle_right # <<>>
            THEN <<MirrorHandle(center, cp1.handle_right[1], cp1.center)>>
            ELSE cp2.handle_left,
            IF cp1.handle_left # <<>>
            THEN <<MirrorHandle(center, cp1.handle_left[1], cp1.center)>>
            ELSE cp2.handle_right)

BZ_enforce_symmetry(c) ==
    LET count == Len(c.cps)
        half  == count \div 2
    IN  [c EXCEPT !.cps =
            [k \in 1..count |->
                IF count % 2 # 0 /\ k = half + 1
                THEN [c.cps[k] EXCEPT !.center = Fresh(0, 0)]
                ELSE IF k > count - half
                     THEN MirrorControlPoint(c.cps[count + 1 - k], c.cps[k])
                     ELSE c.cps[k]]]

BZ_init(points) ==
    LET r == BZ_process_points([NoCurve EXCEPT !.kind = "CubicBezierSpline"], points)
    IN  IF r.raised # NoErr THEN r ELSE BZ_fit(r.c)

\* ------------------------------------------------------------------------
\* __call__: the result is [raised, value]; value is meaningful when raised
\* is NoErr.  "None" stands for falling off the end of the function.
\* ------------------------------------------------------------------------
\* A value is value + sum of coef * entry over zk, the pairs <<coef, entry>>
\* of the non-zero z entries it depends on (CubicSpline only).
Val(v) == [raised |-> NoErr, value |-> v, zk |-> <<>>]
Raise(e) == [raised |-> e, value |-> RatInt(0), zk |-> <<>>]

\* a segment evaluated at its midpoint height, whatever x is
SegmentMean(a, b, x) == RatDiv(Real(a.y + b.y), RatInt(2))

\* a.y + (b.y - a.y) * (x - a.x), without the division by the run
Unnormalised(a, b, x) ==
    RatAdd(Real(a.y), RatMul(Real(b.y - a.y), Real(x - a.x)))

\* a.y + (b.y - a.y) * (x - a.x) / (b.x - a.x)
Interpolate(a, b, x) ==
    RatAdd(Real(a.y), RatDiv(RatMul(Real(b.y - a.y), Real(x - a.x)), Real(b.x - a.x)))

\* the pair is chosen by a.x < x <= b.x
PL_call_upper(c, x0) ==
    LET x == clamp(x0, -Grid, Grid)
        P == c.points
        n == Len(P)
        hits == {i \in 1..n - 1 : P[i].x < x /\ x <= P[i + 1].x}
    IN  IF n = 0 THEN Raise("IndexError")
        ELSE IF x <= P[1].x THEN Val(Real(P[1].y))
        ELSE IF x >= P[n].x THEN Val(Real(P[n].y))
        ELSE IF hits = {} THEN Raise("None")
        ELSE LET i == CHOOSE i \in hits : \A k \in hits : i <= k
             IN  Val(Interpolate(P[i], P[i + 1], x))

PL_call(c, x0) ==
    LET x == clamp(x0, -Grid, Grid)
        P == c.points
        n == Len(P)
        hits == {i \in 1..n - 1 : P[i].x <= x /\ x < P[i + 1].x}
    IN  IF n = 0 THEN Raise("IndexError")
        ELSE IF x <= P[1].x THEN Val(Real(P[1].y))
        ELSE IF x >= P[n].x THEN Val(Real(P[n].y))
        ELSE IF hits = {} THEN Raise("None")
        ELSE LET i == CHOOSE i \in hits : \A k \in hits : i <= k
             IN  Val(Interpolate(P[i], P[i + 1], x))

CallEps == Rat(1, CallEpsInv)

\* the loop "for i in range(n-1): if ...: break" leaves i at the first
\* bracketing pair, at n-2 when there is none, at 0 when it never runs
CS_segment(P, x) ==
    LET n == Len(P)
        hits == {i \in 0..n - 2 : P[i + 1].x <= x /\ x <= P[i + 2].x}
    IN  IF hits # {} THEN CHOOSE i \in hits : \A k \in hits : i <= k
        ELSE IF n >= 2 THEN n - 2 ELSE 0

\* arithmetic on a + b * z[i] + c * z[i+1]
Lin(a, b, c) == [a |-> a, b |-> b, c |-> c]
LinConst(r) == Lin(r, RatInt(0), RatInt(0))
LinAdd(p, q) == Lin(RatAdd(p.a, q.a), RatAdd(p.b, q.b), RatAdd(p.c, q.c))
LinScale(r, p) == Lin(RatMul(r, p.a), RatMul(r, p.b), RatMul(r, p.c))
LinSub(p, q) == LinAdd(p, LinScale(RatInt(-1), q))
LinDiv(p, r) == Lin(RatDiv(p.a, r), RatDiv(p.b, r), RatDiv(p.c, r))

LinZ0(e0) ==
    IF e0 = ZeroZ THEN LinConst(RatInt(0)) ELSE Lin(RatInt(0), RatInt(1), RatInt(0))
LinZ1(e1) ==
    IF e1 = ZeroZ THEN LinConst(RatInt(0)) ELSE Lin(RatInt(0), RatInt(0), RatInt(1))

CS_result(r, e0, e1) ==
    [raised |-> NoErr, value |-> r.a,
     zk |-> (IF RatIsZero(r.b) THEN <<>> ELSE <<<<r.b, e0>>>>)
            \o (IF RatIsZero(r.c) THEN <<>> ELSE <<<<r.c, e1>>>>)]

\* tmp = (z[i] / 2.0) + (x - px) * (z[i+1] - z[i]) / (6.0 * h)
\* tmp = -(h / 6.0) * (z[i+1] + 2.0 * z[i]) + (py1 - py) / h + (x - px) * tmp
\* return py + (x - px) * tmp
CS_value(y0, dy, h, dx, e0, e1) ==
    IF RatIsZero(h) THEN Raise("ZeroDivisionError")
    ELSE CS_result(
           LinAdd(LinConst(y0),
             LinScale(dx,
               LinAdd(LinAdd(
                   LinScale(RatNeg(RatDiv(h, RatInt(6))),
                            LinAdd(LinZ1(e1), LinScale(RatInt(2), LinZ0(e0)))),
                   LinConst(RatDiv(dy, h))),
                 LinScale(dx,
                   LinAdd(LinDiv(LinZ0(e0), RatInt(2)),
                          LinDiv(LinScale(dx, LinSub(LinZ1(e1), LinZ0(e0))),
                                 RatMul(RatInt(6), h))))))),
           e0, e1)

CS_at(P, z, x, i) ==
    IF i + 2 > Len(P) \/ i + 2 > Len(z) THEN Raise("IndexError")
    ELSE CS_value(Real(P[i + 1].y), Real(P[i + 2].y - P[i + 1].y),
                  RatAdd(Real(P[i + 2].x - P[i + 1].x), CallEps),
                  Real(x - P[i + 1].x), z[i + 1], z[i + 2])

CS_call(c, x) == CS_at(c.points, c.z, x, CS_segment(c.points, x))

\* "Determine spline group to use": 0-based index into self._lookup; -1 is
\* Python's last element
BZ_segment(c, x) ==
    LET cps == c.cps
        n == Len(cps)
        hits == {k \in 1..n - 1 : cps[k].center.x <= x /\ x <= cps[k + 1].center.x}
    IN  IF cps[1].center.x > x THEN 0
        ELSE IF cps[n].center.x < x THEN Len(c.lookup) - 1
        ELSE IF hits # {} THEN (CHOOSE k \in hits : \A m \in hits : k <= m) - 1
        ELSE n - 1

\* the table entry a probe reads
Entry(tbl, j) == value_at_t(tbl.pts, j)
\* ... and its x coordinate, which is all the search compares
EntryX(tbl, j) == BezierCoord([k \in 1..4 |-> tbl.pts[k].x], j)

\* The while loop of __call__ on interval = [lo, hi]: the final interval, or
\* the IndexError of reading self._lookup[index][center_index].
RECURSIVE Search(_, _, _, _)
Search(tbl, x, lo, hi) ==
    LET distance == hi - lo
        center_index == lo + (distance \div 2)
    IN  IF distance = 1 THEN [raised |-> NoErr, lo |-> lo, hi |-> hi]
        ELSE IF center_index >= tbl.n THEN [raised |-> "IndexError", lo |-> lo, hi |-> hi]
        ELSE IF RatLt(EntryX(tbl, center_index), Real(x))
             THEN Search(tbl, x, center_index, hi)
             ELSE Search(tbl, x, lo, center_index)

\* the y of the lower table entry, without interpolation
BZ_low_entry(low, high, x, run) == Val(low.y)

\* low[1].y + (x - low[1].x) * ((high[1].y - low[1].y) / (high[1].x - low[1].x))
BZ_between(low, high, x, run) ==
    IF RatIsZero(run) THEN Raise("ZeroDivisionError")
    ELSE Val(RatAdd(low.y, RatMul(RatSub(Real(x), low.x),
                                  RatDiv(RatSub(high.y, low.y), run))))

BZ_interpolate(low, high, x) == BZ_between(low, high, x, RatSub(high.x, low.x))

BZ_searched(tbl, x, s) ==
    IF s.raised # NoErr THEN Raise(s.raised)
    ELSE IF s.hi >= tbl.n THEN Raise("IndexError")
    ELSE BZ_interpolate(Entry(tbl, s.lo), Entry(tbl, s.hi), x)

BZ_in_table(tbl, x) == BZ_searched(tbl, x, Search(tbl, x, 0, tbl.n))

BZ_in_group(c, x, index) ==
    IF index >= Len(c.lookup) \/ (index < 0 /\ c.lookup = <<>>)
    THEN Raise("IndexError")
    ELSE BZ_in_table(c.lookup[IF index < 0 THEN Len(c.lookup) ELSE index + 1], x)

BZ_call(c, x0) ==
    IF c.cps = <<>> THEN Raise("IndexError")
    ELSE BZ_in_group(c, clamp(x0, -Grid, Grid), BZ_segment(c, clamp(x0, -Grid, Grid)))

\* ------------------------------------------------------------------------
\* AbstractCurve: dispatch on the class, the constructor, the is_symmetric
\* setter
\* ------------------------------------------------------------------------
IsPL(c) == c.kind = "PiecewiseLinear"
IsCS(c) == c.kind = "CubicSpline"
IsBZ(c) == c.kind = "CubicBezierSpline"
Kinds == {"PiecewiseLinear", "CubicSpline", "CubicBezierSpline"}

fit(c) == IF IsPL(c) THEN PL_fit(c) ELSE IF IsCS(c) THEN CS_fit(c) ELSE BZ_fit(c)

add_control_point(c, x, y) ==
    IF IsPL(c) THEN PL_add_control_point(c, x, y)
    ELSE IF IsCS(c) THEN CS_add_control_point(c, x, y)
    ELSE BZ_add_control_point(c, x, y)

invert(c) ==
    IF IsPL(c) THEN PL_invert(c) ELSE IF IsCS(c) THEN CS_invert(c) ELSE BZ_invert(c)

enforce_symmetry(c) ==
    IF IsPL(c) THEN PL_enforce_symmetry(c)
    ELSE IF IsCS(c) THEN CS_enforce_symmetry(c)
    ELSE BZ_enforce_symmetry(c)

call(c, x) ==
    IF IsPL(c) THEN PL_call(c, x) ELSE IF IsCS(c) THEN CS_call(c, x) ELSE BZ_call(c, x)

default_points(kind) ==
    IF kind = "PiecewiseLinear" THEN PL_default_points
    ELSE IF kind = "CubicSpline" THEN CS_default_points
    ELSE BZ_default_points

\* AbstractCurve.__init__ behind each class's __init__; an exception leaves
\* no object
Constructed(r) == IF r.raised # NoErr THEN Res(NoCurve, r.raised) ELSE r
init(kind, points) ==
    Constructed(IF kind = "PiecewiseLinear" THEN PL_init(points)
                ELSE IF kind = "CubicSpline" THEN CS_init(points)
                ELSE BZ_init(points))

\* the setter without its two conditions: whatever the old and the new value
\* are, the flag is stored, the symmetry enforced and the curve refitted
set_is_symmetric_always(c, value) ==
    fit(enforce_symmetry([c EXCEPT !.is_symmetric = value]))

set_is_symmetric(c, value) ==
    IF value # c.is_symmetric
    THEN LET c1 == [c EXCEPT !.is_symmetric = value]
         IN  fit(IF value THEN enforce_symmetry(c1) ELSE c1)
    ELSE Res(c, NoErr)

\* control_points(): the centres, as (x, y), in list order
control_points(c) ==
    IF IsBZ(c) THEN [k \in 1..Len(c.cps) |-> Plain(c.cps[k].center)] ELSE c.points

\* ------------------------------------------------------------------------
\* ResponseCurveModel (the UI adapter)
\* ------------------------------------------------------------------------
\* points[idx].x = x; points[idx].y = y; and, when symmetric, the same with
\* (-x, -y) on points[len(points)-idx-1]; then fit().  On a Bezier curve
\* the list holds ControlPoint objects: the assignments create attributes x
\* and y on them, which nothing reads, and centre and handles stay.
setControlPoint(c, x, y, idx) ==
    IF IsBZ(c) THEN fit(c)
    ELSE LET n  == Len(c.points)
             p1 == [c.points EXCEPT ![idx + 1] = Point2D(x, y)]
             p2 == IF c.is_symmetric
                   THEN [p1 EXCEPT ![n - idx] = Point2D(-x, -y)]
                   ELSE p1
         IN  fit([c EXCEPT !.points = p2])

\* _set_curve_type: self._data.curve = curve_type() when the type differs
set_curve_type(c, kind) ==
    IF kind # c.kind THEN init(kind, default_points(kind)) ELSE Res(c, NoErr)

\* ------------------------------------------------------------------------
\* Bounds and inputs
\* ------------------------------------------------------------------------
\* add_control_point is offered while the curve has fewer control points
MaxPoints == 4
\* mutating calls offered after the first construction
MaxOps == 2

\* explicit point lists handed to PiecewiseLinear(...) and CubicSpline(...):
\* a span inside [-1, 1], an unsorted list, a single point
ExplicitPoints ==
    << <<Point2D(-10, -10), Point2D(10, 20)>>,
       <<Point2D(20, 20), Point2D(0, 10), Point2D(-20, -20)>>,
       <<Point2D(0, 10)>> >>

\* flat lists handed to CubicBezierSpline(...), of length 4, 5, 6, 7, 10, and
\* a list of length 4 whose knots descend
ExplicitFlat ==
    << <<Point2D(-10, -10), Point2D(-8, 0), Point2D(8, 20), Point2D(10, 10)>>,
       <<Point2D(-20, -20), Point2D(-12, -10), Point2D(0, 10), Point2D(12, 0),
         Point2D(20, 20)>>,
       <<Point2D(-20, -20), Point2D(-12, -10), Point2D(-4, 10), Point2D(4, 0),
         Point2D(12, 0), Point2D(20, 20)>>,
       <<Point2D(-20, -20), Point2D(-15, -10), Point2D(-5, 10), Point2D(0, 10),
         Point2D(5, 10), Point2D(15, 0), Point2D(20, 20)>>,
       <<Point2D(-20, -20), Point2D(-16, -10), Point2D(-12, -20), Point2D(-8, -10),
         Point2D(-4, 0), Point2D(0, 10), Point2D(4, 10), Point2D(8, 0),
         Point2D(12, 10), Point2D(20, 20)>>,
       <<Point2D(20, 20), Point2D(19, 19), Point2D(-19, -19), Point2D(-20, -20)>> >>

\* the list a constructor call receives: 0 is points=None
ConstructorLists(kind) ==
    IF kind = "CubicBezierSpline" THEN ExplicitFlat ELSE ExplicitPoints
ConstructorPoints(kind, li) ==
    IF li = 0 THEN default_points(kind) ELSE ConstructorLists(kind)[li]

\* arguments of add_control_point: inside the span, on it, outside [-1, 1]
AddPoints == {<<0, 20>>, <<20, 10>>, <<-30, -10>>}
\* arguments of setControlPoint
SetPoints == {<<10, -10>>}
\* arguments of __call__
EvalXs == {-40, 0, 10, 20, 40}

Count(c) == IF IsBZ(c) THEN Len(c.cps) ELSE Len(c.points)

\* ------------------------------------------------------------------------
\* State: the curve object held by the caller, the curve as it was before
\* the last operation, the last operation with its arguments and the
\* exception it raised, the result of the last __call__, and the number of
\* mutating calls made since the first construction.
\* ------------------------------------------------------------------------
\* interval and searching are the local variables of the binary search in
\* CubicBezierSpline.__call__; they change only in the specification that
\* takes the while loop one iteration at a time (SearchSpec), a whole
\* __call__ being one step everywhere else.  below[j + 1] is the outcome of
\* the comparison self._lookup[index][j][1].x < x for the table and the x of
\* the call in progress, fixed when the call starts.
VARIABLES curve, pre, last, out, ops, interval, searching, below,
          chain, clock, sent

vars == <<curve, pre, last, out, ops, interval, searching, below,
          chain, clock, sent>>

Op(op, args, raised) == [op |-> op, args |-> args, raised |-> raised]
NoOut == Val(RatInt(0))

\* no ChainFunctor constructed, nothing dispatched
NoChain ==
    [chain_sequences |-> 0, timeout |-> 0,
     current_index |-> 0, last_execution |-> 0]
NoSent == [n |-> 0, seq |-> 0, current |-> FALSE]
Exists == curve.kind # "None"

Init ==
    /\ curve = NoCurve
    /\ pre = NoCurve
    /\ last = Op("none", <<>>, NoErr)
    /\ out = NoOut
    /\ ops = 0
    /\ interval = <<0, 0>>
    /\ searching = FALSE
    /\ below = <<>>
    /\ chain = NoChain /\ clock = 0 /\ sent = NoSent

Step(op, args, r) ==
    /\ ops < MaxOps \/ ~Exists
    /\ UNCHANGED <<interval, searching, below, chain, clock, sent>>
    /\ ops' = IF Exists THEN ops + 1 ELSE 0
    /\ pre' = curve
    /\ curve' = r.c
    /\ last' = Op(op, args, r.raised)
    /\ out' = NoOut

KindIx(kind) == IF kind = "PiecewiseLinear" THEN 1 ELSE IF kind = "CubicSpline" THEN 2 ELSE 3

Construct ==
    /\ ~Exists
    /\ \E kind \in Kinds :
         \E li \in 0..Len(ConstructorLists(kind)) :
            Step("construct", <<KindIx(kind), li>>, init(kind, ConstructorPoints(kind, li)))

AddControlPoint ==
    /\ Exists
    /\ Count(curve) < MaxPoints
    /\ \E a \in AddPoints :
         Step("add_control_point", a, add_control_point(curve, a[1], a[2]))

Invert ==
    /\ Exists
    /\ Step("invert", <<>>, invert(curve))

SetSymmetric ==
    /\ Exists
    /\ \E value \in BOOLEAN :
         Step("is_symmetric", <<IF value THEN 1 ELSE 0>>, set_is_symmetric(curve, value))

Fit ==
    /\ Exists
    /\ Step("fit", <<>>, fit(curve))

SetControlPoint ==
    /\ Exists
    /\ \E a \in SetPoints :
         \E idx \in 0..Count(curve) - 1 :
            Step("setControlPoint", <<a[1], a[2], idx>>,
                 setControlPoint(curve, a[1], a[2], idx))

SetCurveType ==
    /\ Exists
    /\ \E kind \in Kinds :
         Step("curveType", <<KindIx(kind)>>, set_curve_type(curve, kind))

\* __call__ leaves the curve as it is, so a second evaluation in a row
\* leads to the states that the first one leads to; it is not offered.
Called(x, r) ==
    /\ pre' = curve
    /\ curve' = curve
    /\ last' = Op("call", <<x>>, r.raised)
    /\ out' = r
    /\ ops' = ops
    /\ UNCHANGED <<interval, searching, below, chain, clock, sent>>

Evaluate ==
    /\ Exists
    /\ last.op # "call"
    /\ \E x \in EvalXs : Called(x, call(curve, x))

Next ==
    \/ Construct
    \/ AddControlPoint
    \/ Invert
    \/ SetSymmetric
    \/ Fit
    \/ SetControlPoint
    \/ SetCurveType
    \/ Evaluate

Spec == Init /\ [][Next]_vars

\* ------------------------------------------------------------------------
\* The binary search of CubicBezierSpline.__call__, one iteration per step
\* ------------------------------------------------------------------------
\* flat lists of the curves searched: the default, a curve whose knots span
\* [-0.5, 0.5], one whose handles cross, so that the stored x values rise,
\* fall and rise again, and one of two segments
SearchFlat ==
    << BZ_default_points,
       <<Point2D(-10, -10), Point2D(-8, 0), Point2D(8, 20), Point2D(10, 10)>>,
       <<Point2D(-20, -20), Point2D(40, 0), Point2D(-40, 0), Point2D(20, 20)>>,
       <<Point2D(-20, -20), Point2D(-15, -10), Point2D(-5, 10), Point2D(0, 10),
         Point2D(5, 10), Point2D(15, 0), Point2D(20, 20)>> >>
\* arguments of the calls searched
SearchXs == {x \in -2 * Grid..2 * Grid : x % 5 = 0}

\* x = util.clamp(x, -1.0, 1.0) of the call in progress, and the table
\* self._lookup[index] it searches
SearchX == clamp(last.args[1], -Grid, Grid)
SearchTable == curve.lookup[BZ_segment(curve, SearchX) + 1]

\* the probe at the lower end of the interval
center_low(iv) == iv[1]

\* center_index = interval[0] + int(distance / 2.0)
center_index(iv) == iv[1] + ((iv[2] - iv[1]) \div 2)

\* interval = [0, len(self._lookup[index])]; searching = True
SearchInit ==
    /\ \E li \in 1..Len(SearchFlat) :
          curve = init("CubicBezierSpline", SearchFlat[li]).c
    /\ \E x \in SearchXs : last = Op("call", <<x>>, NoErr)
    /\ pre = curve
    /\ out = NoOut
    /\ ops = 0
    /\ interval = <<0, SearchTable.n>>
    /\ searching = TRUE
    /\ below = [j \in 1..SearchTable.n |->
                  RatLt(EntryX(SearchTable, j - 1), Real(SearchX))]
    /\ chain = NoChain /\ clock = 0 /\ sent = NoSent

\* if distance == 1: searching = False; break
SearchDone ==
    /\ searching
    /\ interval[2] - interval[1] = 1
    /\ searching' = FALSE
    /\ UNCHANGED <<curve, pre, last, out, ops, interval, below,
                   chain, clock, sent>>

\* one iteration that probes self._lookup[index][center_index][1].x; reading
\* past the end of the table raises IndexError and ends the call
SearchProbe ==
    /\ searching
    /\ interval[2] - interval[1] # 1
    /\ IF center_index(interval) >= Len(below) \/ center_index(interval) < 0
       THEN /\ last' = [last EXCEPT !.raised = "IndexError"]
            /\ searching' = FALSE
            /\ UNCHANGED interval
       ELSE /\ interval' =
                 IF below[center_index(interval) + 1]
                 THEN <<center_index(interval), interval[2]>>
                 ELSE <<interval[1], center_index(interval)>>
            /\ UNCHANGED <<last, searching>>
    /\ UNCHANGED <<curve, pre, out, ops, below, chain, clock, sent>>

SearchNext == SearchProbe \/ SearchDone

\* the call runs on: an iteration that can be taken is taken
SearchSpec == SearchInit /\ [][SearchNext]_vars /\ WF_vars(SearchNext)

\* ---------------------------------------------------------------------------
\* ChainFunctor: a button's press and release events dispatched to one of the
\* chain sequences.  Time is counted in whole ticks.

MaxSequences == 3
MaxCalls == 4
MaxClock == 6

\* timeout values of the action data: disabled, or two ticks
Timeouts == {0, 2}

\* ChainFunctor.__init__ over a ChainData with n sequences; time.time()
\* is already past last_execution + timeout
ChainInit ==
    /\ \E n \in 1..MaxSequences, t \in Timeouts :
          chain = [chain_sequences |-> n, timeout |-> t,
                   current_index |-> 0, last_execution |-> 0]
    /\ clock = 3
    /\ sent = NoSent
    /\ curve = NoCurve /\ pre = NoCurve
    /\ last = Op("none", <<>>, NoErr)
    /\ out = NoOut /\ ops = 0
    /\ interval = <<0, 0>> /\ searching = FALSE /\ below = <<>>

\* the index after the timeout test at the head of __call__
reset_index(c, now) ==
    IF c.timeout > 0 /\ c.last_execution + c.timeout < now
    THEN 0 ELSE c.current_index

\* the index left behind by __call__
next_index(c, index, current) ==
    IF current THEN (index + 1) % c.chain_sequences ELSE index

\* ChainFunctor.__call__(event, value) with value.current = current
ChainCall(current) ==
    /\ sent.n < MaxCalls
    /\ sent' = [n |-> sent.n + 1, seq |-> reset_index(chain, clock),
                current |-> current]
    /\ chain' = [chain EXCEPT
                   !.current_index =
                       next_index(chain, reset_index(chain, clock), current),
                   !.last_execution =
                       IF chain.timeout > 0 THEN clock ELSE @]
    /\ UNCHANGED <<clock, curve, pre, last, out, ops,
                   interval, searching, below>>

\* time.time() moves on between two events
Tick ==
    /\ clock < MaxClock
    /\ clock' = clock + 1
    /\ UNCHANGED <<chain, sent, curve, pre, last, out, ops,
                   interval, searching, below>>

ChainNext ==
    \/ \E current \in BOOLEAN : ChainCall(current)
    \/ Tick

ChainSpec == ChainInit /\ [][ChainNext]_vars

\* ------------------------------------------------------------------------
\* Properties
\* ------------------------------------------------------------------------
\* two results of __call__ are the same: the same exception, or equal values
SameValue(v, w) ==
    /\ RatEq(v.value, w.value)
    /\ Len(v.zk) = Len(w.zk)
    /\ \A j \in 1..Len(v.zk) :
          v.zk[j][2] = w.zk[j][2] /\ RatEq(v.zk[j][1], w.zk[j][1])
SameResult(v, w) ==
    /\ v.raised = w.raised
    /\ v.raised = NoErr => SameValue(v, w)
\* the result is the number r
IsNumber(v, r) == v.raised = NoErr /\ v.zk = <<>> /\ RatEq(v.value, r)

Evaluated == last.op = "call"
EvaluatedAt == last.args[1]

\* the curve is what one of the constructor calls listed above returns
FreshlyConstructed(c) ==
    \E kind \in Kinds :
       \E li \in 0..Len(ConstructorLists(kind)) :
          c = init(kind, ConstructorPoints(kind, li)).c

\* C1: on a curve of any variant, reached by construction and any sequence of
\* add_control_point, invert, is_symmetric and fit, evaluate(x) for x in
\* [-1, 1] raises no exception.  Stated for the curves a constructor returns
\* with at least two control points, which is the least the claim says.
C1_EvaluateIsDefined ==
    (/\ Evaluated
     /\ -Grid <= EvaluatedAt /\ EvaluatedAt <= Grid
     /\ Count(curve) >= 2
     /\ FreshlyConstructed(curve))
    => out.raised = NoErr

\* C2: evaluate(x) == evaluate(clamp(x, -1, 1)) for every variant and x.
C2_EvaluateClampsFirst ==
    Evaluated => SameResult(out, call(curve, clamp(EvaluatedAt, -Grid, Grid)))

\* every control point has its x in [-1, 1]
InDomain(c) ==
    \A k \in 1..Count(c) :
       -Grid <= control_points(c)[k].x /\ control_points(c)[k].x <= Grid

\* C3: for PiecewiseLinear and CubicSpline, evaluate(x) with x below the first
\* control point's x is the first point's y, and with x above the last point's
\* x is the last point's y; on the points [(-1,-1),(1,1)] evaluate(0) is 0.
\* Stated for curves of at least two control points, all with x in [-1, 1],
\* and for x in [-1, 1], where clamping plays no part.
C3_BoundaryValueOutsideSpan ==
    (/\ Evaluated
     /\ -Grid <= EvaluatedAt /\ EvaluatedAt <= Grid
     /\ IsPL(curve) \/ IsCS(curve)
     /\ Count(curve) >= 2
     /\ InDomain(curve))
    => /\ EvaluatedAt < curve.points[1].x
            => IsNumber(out, Real(curve.points[1].y))
       /\ EvaluatedAt > curve.points[Len(curve.points)].x
            => IsNumber(out, Real(curve.points[Len(curve.points)].y))
       /\ (IsPL(curve) /\ curve.points = PL_default_points /\ EvaluatedAt = 0)
            => IsNumber(out, RatInt(0))

\* C4: CubicBezierSpline(points) with a flat list of length L returns a curve
\* when (L - 4) % 3 = 0 and raises InvalidCurveDefinition, returning no
\* curve, when it is not.
C4_BezierLengthIsValidated ==
    (last.op = "construct" /\ last.args[1] = KindIx("CubicBezierSpline")
                           /\ last.args[2] > 0)
    => IF (Len(ExplicitFlat[last.args[2]]) - 4) % 3 = 0
       THEN Exists /\ last.raised = NoErr
       ELSE ~Exists /\ last.raised = "InvalidCurveDefinition"

\* the PiecewiseLinear curves of the end-to-end scenario
ScenarioStart == IsPL(curve) /\ ~curve.is_symmetric /\ curve.points = PL_default_points
ScenarioAdded ==
    /\ IsPL(curve) /\ ~curve.is_symmetric
    /\ curve.points = <<Point2D(-Grid, -Grid), Point2D(0, Grid), Point2D(Grid, Grid)>>
AtHalf == Evaluated /\ EvaluatedAt * 2 = Grid

\* C5 (amended): the default PiecewiseLinear curve gives evaluate(0.5) == 0.5;
\* after add_control_point(0, 1) it gives evaluate(0.5) == 1.
C5_ScenarioValues ==
    /\ (AtHalf /\ ScenarioStart) => IsNumber(out, Rat(1, 2))
    /\ (AtHalf /\ ScenarioAdded) => IsNumber(out, RatInt(1))

\* C5 witness: evaluate(0.5) was called on the curve that add_control_point(0, 1)
\* made of the default curve, and returned 1.
C5_ScenarioReached ==
    /\ AtHalf /\ ScenarioAdded
    /\ pre.points = curve.points
    /\ IsNumber(out, RatInt(1))

\* C5 as the specification words it: evaluate(0.5) == 0.75 after the addition.
C5_ScenarioValuesAsWritten ==
    /\ (AtHalf /\ ScenarioStart) => IsNumber(out, Rat(1, 2))
    /\ (AtHalf /\ ScenarioAdded) => IsNumber(out, Rat(3, 4))

Mirrored(P) == \A i \in 1..Len(P) : P[Len(P) + 1 - i] = Point2D(-P[i].x, -P[i].y)
SwitchedOn == last.op = "is_symmetric" /\ last.args = <<1>> /\ ~pre.is_symmetric

\* C6: right after is_symmetric goes from false to true, on any variant, the
\* control point at index count-1-i is the negation of the one at index i,
\* an odd middle control point is (0, 0), and the count is unchanged.
C6_SymmetricAfterSwitch ==
    SwitchedOn
    => /\ Mirrored(control_points(curve))
       /\ Count(curve) % 2 = 1
            => control_points(curve)[(Count(curve) + 1) \div 2] = Point2D(0, 0)
       /\ Count(curve) = Count(pre)

\* C6 witness: the switch acted on an odd number of control points that were
\* not symmetric before.
C6_SwitchReached ==
    /\ SwitchedOn
    /\ Count(pre) % 2 = 1
    /\ ~Mirrored(control_points(pre))
    /\ Mirrored(control_points(curve))

Added == last.op = "add_control_point"
HasPoint(c, x, y) == \E k \in 1..Count(c) : control_points(c)[k] = Point2D(x, y)

\* C7: add_control_point(x, y) on a symmetric curve of any variant inserts
\* (x, y) and (-x, -y), so the count grows by 2; on a curve that is not
\* symmetric it inserts one point and the count grows by 1.  Stated for the
\* calls that raise nothing and leave every control point's x in [-1, 1].
C7_SymmetricAddInsertsMirror ==
    (Added /\ last.raised = NoErr /\ InDomain(curve))
    => /\ HasPoint(curve, last.args[1], last.args[2])
       /\ IF pre.is_symmetric
          THEN /\ Count(curve) = Count(pre) + 2
               /\ HasPoint(curve, -last.args[1], -last.args[2])
          ELSE Count(curve) = Count(pre) + 1

NegatedPoint(p, q) == q.x = p.x /\ q.y = -p.y
NegatedHandle(h, g) ==
    IF h = <<>> THEN g = <<>> ELSE g # <<>> /\ NegatedPoint(h[1], g[1])

\* C8: invert() negates the y of every control point, for CubicBezierSpline
\* of every knot centre and every handle, and leaves every x unchanged.
\* Stated for the calls that raise nothing, on control points with x in
\* [-1, 1].
C8_InvertNegatesEverything ==
    (last.op = "invert" /\ last.raised = NoErr /\ InDomain(curve))
    => /\ Count(curve) = Count(pre)
       /\ \A k \in 1..Count(curve) :
             NegatedPoint(control_points(pre)[k], control_points(curve)[k])
       /\ IsBZ(curve)
            => \A k \in 1..Count(curve) :
                  /\ NegatedHandle(pre.cps[k].handle_left, curve.cps[k].handle_left)
                  /\ NegatedHandle(pre.cps[k].handle_right, curve.cps[k].handle_right)

Ascending(P) == \A i \in 1..Len(P) - 1 : P[i].x <= P[i + 1].x

\* C9: after construction and after every mutating operation, on every
\* variant, control_points() is in non-decreasing order of x.
C9_ControlPointsSorted == Exists => Ascending(control_points(curve))

\* C9 witness: setControlPoint moved a control point past its neighbour and
\* the list came back in order, the point at another index.
C9_SortActed ==
    /\ last.op = "setControlPoint"
    /\ ~IsBZ(curve) /\ ~pre.is_symmetric
    /\ control_points(curve)[last.args[3] + 1] # Point2D(last.args[1], last.args[2])
    /\ HasPoint(curve, last.args[1], last.args[2])
    /\ Ascending(control_points(curve))

\* what invert() acts on: the points, or the control points with their handles
Shape(c) == IF IsBZ(c) THEN c.cps ELSE c.points

\* C10: on every variant and every reachable curve, invert() twice gives back
\* every control point and handle, x and y, in the same order.
C10_InvertTwiceRestores == Exists => Shape(invert(invert(curve).c).c) = Shape(curve)

\* C10 witness: invert() changed a Bezier curve, and a second invert() gives
\* back the curve it was called on.
C10_InvertedOnce ==
    /\ last.op = "invert"
    /\ IsBZ(curve)
    /\ Shape(curve) # Shape(pre)
    /\ Shape(invert(curve).c) = Shape(pre)

\* C11: fit() called again right after fit(), on any variant, leaves the
\* control points and the derived state (z, lookup tables) as they are, and
\* evaluate(x) gives the same result for every x before and after.
C11_FitIsIdempotent ==
    last.op = "fit"
    => /\ fit(curve).c = curve
       /\ fit(curve).raised = last.raised
       /\ \A x \in EvalXs : SameResult(call(fit(curve).c, x), call(curve, x))

\* C11 witness: fit() ran on a curve with derived state to recompute: solved
\* z coefficients, or two lookup tables.
C11_FitReached ==
    /\ last.op = "fit" /\ last.raised = NoErr
    /\ \/ IsCS(curve) /\ \E k \in 1..Len(curve.z) : curve.z[k] # ZeroZ
       \/ IsBZ(curve) /\ Len(curve.lookup) >= 2

AllZero(z) == \A k \in 1..Len(z) : z[k] = ZeroZ

\* C12: in every reachable CubicSpline state there is one coefficient per
\* control point, z[0] and z[n] are 0, and with fewer than 3 control points
\* every coefficient is 0.
C12_NaturalSplineEnds ==
    (Exists /\ IsCS(curve))
    => /\ Len(curve.z) = Len(curve.points)
       /\ Len(curve.z) >= 1 => curve.z[1] = ZeroZ /\ curve.z[Len(curve.z)] = ZeroZ
       /\ Len(curve.points) < 3 => AllZero(curve.z)

\* C12 witness: the tridiagonal solve ran on three or more points and left a
\* solved coefficient between two zero ends.
C12_SolveReached ==
    /\ IsCS(curve) /\ last.raised = NoErr
    /\ Len(curve.points) >= 3
    /\ \A k \in 2..Len(curve.z) - 1 : curve.z[k] = Solved(curve.points, k - 1)
    /\ curve.z[1] = ZeroZ /\ curve.z[Len(curve.z)] = ZeroZ

\* g is the point reflection of h through the origin, where both exist
Reflected(h, g) ==
    (h # <<>> /\ g # <<>>) => (g[1].x = -h[1].x /\ g[1].y = -h[1].y)

\* every handle lies on its own side of its knot
HandlesInOrder(cps) ==
    \A k \in 1..Len(cps) :
       /\ cps[k].handle_left # <<>> => cps[k].handle_left[1].x <= cps[k].center.x
       /\ cps[k].handle_right # <<>> => cps[k].center.x <= cps[k].handle_right[1].x

\* C13: right after is_symmetric goes from false to true on a
\* CubicBezierSpline, for every control point i, the middle one of an odd
\* count included, and its mirror m = count-1-i, m.handle_left is the
\* reflection of i.handle_right and m.handle_right that of i.handle_left.
\* Stated for the switches that raise nothing, on curves whose handles were
\* on their own side of their knots.
C13_HandlesReflectedAfterSwitch ==
    (SwitchedOn /\ IsBZ(curve) /\ last.raised = NoErr /\ HandlesInOrder(pre.cps))
    => \A i \in 1..Len(curve.cps) :
          /\ Reflected(curve.cps[i].handle_right,
                       curve.cps[Len(curve.cps) + 1 - i].handle_left)
          /\ Reflected(curve.cps[i].handle_left,
                       curve.cps[Len(curve.cps) + 1 - i].handle_right)

\* the symmetry invariant on a list of points: mirrored, odd middle at (0, 0)
Symmetric(P) ==
    /\ Mirrored(P)
    /\ Len(P) % 2 = 1 => P[(Len(P) + 1) \div 2] = Point2D(0, 0)

\* C14: on a PiecewiseLinear curve with is_symmetric true whose points satisfy
\* the symmetry invariant, the invariant still holds after
\* add_control_point(x, y), x = 0 included.  Stated for x in [-1, 1].
C14_SymmetricAddKeepsSymmetry ==
    (/\ Added /\ IsPL(curve) /\ pre.is_symmetric
     /\ Symmetric(pre.points)
     /\ -Grid <= last.args[1] /\ last.args[1] <= Grid)
    => Symmetric(curve.points)

Inverted == last.op = "invert"

\* C15: on every variant, when is_symmetric is true and every control point
\* has its mirror at index count-1-i before invert(), the same holds after
\* invert().  Stated for the calls that raise nothing.
C15_InvertKeepsSymmetry ==
    (/\ Inverted /\ last.raised = NoErr
     /\ pre.is_symmetric /\ Mirrored(control_points(pre)))
    => Mirrored(control_points(curve))

\* C16: on every variant add_control_point(x, y) raises nothing for any x,
\* inside or outside [-1, 1] and inside, on or outside the range of the
\* control points' x, and the curve then holds a control point at exactly
\* (x, y).  Stated for calls on the curves a constructor returns with at
\* least two control points.
C16_AddNeverRaises ==
    (Added /\ FreshlyConstructed(pre) /\ Count(pre) >= 2)
    => /\ last.raised = NoErr
       /\ HasPoint(curve, last.args[1], last.args[2])

SwitchedOff == last.op = "is_symmetric" /\ last.args = <<0>> /\ pre.is_symmetric
SameValueAssigned == last.op = "is_symmetric" /\ (last.args = <<1>>) = pre.is_symmetric

\* C17: is_symmetric going from true to false leaves every control point and
\* every Bezier handle as it was and does nothing but clear the flag and
\* refit; assigning the value is_symmetric already has changes nothing.
C17_SwitchOffOnlyRefits ==
    /\ SwitchedOff
        => /\ Shape(curve) = Shape(pre)
           /\ ~curve.is_symmetric
           /\ curve = fit([pre EXCEPT !.is_symmetric = FALSE]).c
    /\ SameValueAssigned => curve = pre /\ last.raised = NoErr

\* C17 witness: the flag was cleared on a curve of three or more control
\* points that the switch to true had mirrored.
C17_SwitchedOffReached ==
    /\ SwitchedOff
    /\ Count(pre) >= 3
    /\ Mirrored(control_points(pre))
    /\ Shape(curve) = Shape(pre)

Constructed_BZ == last.op = "construct" /\ last.args[1] = 3 /\ last.raised = NoErr
FlatList == ConstructorPoints("CubicBezierSpline", last.args[2])
IsPoint(p, q) == p.x = q.x /\ p.y = q.y
IsHandle(h, q) == h # <<>> /\ IsPoint(h[1], q)

\* C18: a CubicBezierSpline constructed from a flat list of 3N+1 points,
\* N >= 1, has N+1 control points; control point k has its centre at flat
\* point 3k, handle_right at 3k+1 (none for the last) and handle_left at
\* 3k-1 (none for the first).  Stated for lists in ascending x.
C18_FlatListLayout ==
    (/\ Constructed_BZ
     /\ Len(FlatList) >= 4 /\ (Len(FlatList) - 1) % 3 = 0
     /\ Ascending(FlatList))
    => LET N == (Len(FlatList) - 1) \div 3
       IN  /\ Len(curve.cps) = N + 1
           /\ \A k \in 0..N :
                 /\ IsPoint(curve.cps[k + 1].center, FlatList[3 * k + 1])
                 /\ IF k = N THEN curve.cps[k + 1].handle_right = <<>>
                    ELSE IsHandle(curve.cps[k + 1].handle_right, FlatList[3 * k + 2])
                 /\ IF k = 0 THEN curve.cps[k + 1].handle_left = <<>>
                    ELSE IsHandle(curve.cps[k + 1].handle_left, FlatList[3 * k])

DefaultBezier == IsBZ(curve) /\ curve = BZ_init(BZ_default_points).c
AtZero == Evaluated /\ EvaluatedAt = 0

\* C19: the default CubicBezierSpline evaluates to exactly 0 at x = 0.
C19_DefaultBezierThroughOrigin ==
    (AtZero /\ DefaultBezier) => IsNumber(out, RatInt(0))

\* C19 witness: the default curve was evaluated at 0 and gave 0 by
\* interpolating between two table entries whose y values are not 0.
C19_DefaultBezierEvaluated ==
    /\ AtZero /\ DefaultBezier
    /\ out.raised = NoErr /\ RatIsZero(out.value)
    /\ LET s == Search(curve.lookup[1], 0, 0, curve.lookup[1].n)
       IN  /\ s.raised = NoErr
           /\ RatLt(Entry(curve.lookup[1], s.lo).y, RatInt(0))
           /\ RatLt(RatInt(0), Entry(curve.lookup[1], s.hi).y)

DistinctX(P) == \A i, j \in 1..Len(P) : i # j => P[i].x # P[j].x
\* x and -x both lie within the span of the control points
InSpan(c, x) ==
    /\ control_points(c)[1].x <= x /\ x <= control_points(c)[Count(c)].x
    /\ control_points(c)[1].x <= -x /\ -x <= control_points(c)[Count(c)].x

\* w is -v to within 1/1000; results that depend on solved z coefficients
\* are not compared
Opposite(v, w) ==
    /\ v.raised = NoErr /\ w.raised = NoErr
    /\ (v.zk = <<>> /\ w.zk = <<>>)
         => /\ RatLe(RatNeg(Rat(1, 1000)), RatAdd(v.value, w.value))
            /\ RatLe(RatAdd(v.value, w.value), Rat(1, 1000))

\* C20: right after is_symmetric is set to true, on any variant with control
\* points of distinct x, evaluate(-x) == -evaluate(x) for every x in [-1, 1],
\* and so evaluate(0) == 0.  Stated with a tolerance of 1/1000, for x and -x
\* within the span of the control points, all of them in [-1, 1].
C20_SymmetricCurveIsOdd ==
    (/\ SwitchedOn /\ last.raised = NoErr
     /\ Count(curve) >= 2
     /\ DistinctX(control_points(curve)) /\ InDomain(curve))
    => \A x \in EvalXs :
          InSpan(curve, x) => Opposite(call(curve, x), call(curve, -x))

\* the argument of the last __call__ after util.clamp
ClampedX == clamp(EvaluatedAt, -Grid, Grid)
\* the 1-based indices i of the pairs (a, b) = (P[i], P[i+1]) with a.x <= x < b.x
Bracketing(P, x) == {i \in 1..Len(P) - 1 : P[i].x <= x /\ x < P[i + 1].x}
StrictlyInside(P, x) == Len(P) >= 2 /\ P[1].x < x /\ x < P[Len(P)].x
\* v is a.y + (b.y - a.y) * (x - a.x) / (b.x - a.x), cross-multiplied
OnSegment(v, a, b, x) ==
    /\ v.raised = NoErr /\ v.zk = <<>>
    /\ b.x - a.x # 0
    /\ RatEq(RatMul(v.value, Real(b.x - a.x)),
             RatAdd(RatMul(Real(a.y), Real(b.x - a.x)),
                    RatMul(Real(b.y - a.y), Real(x - a.x))))

\* C21: PiecewiseLinear evaluate(x), for a clamped x strictly between the
\* first and the last control point's x: a consecutive pair with
\* a.x <= x < b.x exists, also when control points share an x, b.x - a.x is
\* not 0, the result is the interpolation on the first such pair, and the
\* call never falls through without a value.
C21_BracketingPairExists ==
    (Evaluated /\ IsPL(curve) /\ StrictlyInside(curve.points, ClampedX))
    => /\ Bracketing(curve.points, ClampedX) # {}
       /\ out.raised # "None"
       /\ \A i \in Bracketing(curve.points, ClampedX) :
             (\A k \in Bracketing(curve.points, ClampedX) : i <= k)
             => OnSegment(out, curve.points[i], curve.points[i + 1], ClampedX)

\* C21 witness: evaluate(x) ran at the x two control points share, strictly
\* inside the span, and returned the value on the pair that starts at the
\* second of them.
C21_SharedXEvaluated ==
    /\ Evaluated /\ IsPL(curve) /\ StrictlyInside(curve.points, ClampedX)
    /\ \E i \in 1..Len(curve.points) - 2 :
          /\ curve.points[i].x = ClampedX /\ curve.points[i + 1].x = ClampedX
          /\ curve.points[i].y # curve.points[i + 1].y
          /\ OnSegment(out, curve.points[i + 1], curve.points[i + 2], ClampedX)

\* the interval the binary search of the last __call__ ended with, in the
\* table of segment index (0-based)
SearchEnd(c, x, index) ==
    Search(c.lookup[index + 1], x, 0, c.lookup[index + 1].n)

\* C22: in CubicBezierSpline evaluate(x) the selected segment index lies in
\* 0..segment_count-1 and the binary search ends with adjacent indices lo and
\* hi = lo + 1 that are both valid indices 0..100 of the segment's table,
\* also when x is below or above every stored x.  Stated for the curves a
\* constructor returns with at least two control points.
C22_SearchEndsInsideTable ==
    (Evaluated /\ IsBZ(curve) /\ FreshlyConstructed(curve) /\ Count(curve) >= 2)
    => /\ BZ_segment(curve, ClampedX) \in 0..Len(curve.lookup) - 1
       /\ SearchEnd(curve, ClampedX, BZ_segment(curve, ClampedX)).raised = NoErr
       /\ SearchEnd(curve, ClampedX, BZ_segment(curve, ClampedX)).hi
            = SearchEnd(curve, ClampedX, BZ_segment(curve, ClampedX)).lo + 1
       /\ SearchEnd(curve, ClampedX, BZ_segment(curve, ClampedX)).lo \in 0..LookupEntries - 1
       /\ SearchEnd(curve, ClampedX, BZ_segment(curve, ClampedX)).hi \in 0..LookupEntries - 1

\* the first control point has only handle_right, the last only handle_left,
\* every one between them has both
HandleLayout(cps) ==
    \A k \in 1..Len(cps) :
       /\ (cps[k].handle_left = <<>>) <=> (k = 1)
       /\ (cps[k].handle_right = <<>>) <=> (k = Len(cps))

\* C23: every reachable CubicBezierSpline state has the handle layout of an
\* open curve, so that every consecutive pair gives _generate_lookup a
\* cp1.handle_right and a cp2.handle_left.  Stated as a step: an
\* add_control_point, invert, is_symmetric assignment or fit on a curve of
\* two or more control points that has the layout leaves a curve that has it.
C23_HandleLayoutKept ==
    (/\ last.op \in {"add_control_point", "invert", "is_symmetric", "fit"}
     /\ IsBZ(pre) /\ Count(pre) >= 2 /\ HandleLayout(pre.cps))
    => HandleLayout(curve.cps)

\* the cubic Bernstein form (1-t)^3 p0 + 3 (1-t)^2 t p1 + 3 (1-t) t^2 p2 + t^3 p3
\* at t = j / TSteps, for one coordinate given in grid steps
Bernstein(p, j) ==
    Rat(p[1] * (TSteps - j) * (TSteps - j) * (TSteps - j)
          + 3 * p[2] * (TSteps - j) * (TSteps - j) * j
          + 3 * p[3] * (TSteps - j) * j * j
          + p[4] * j * j * j,
        Grid * TSteps * TSteps * TSteps)

IsBernsteinPoint(pts, j) ==
    /\ RatEq(value_at_t(pts, j).x, Bernstein([k \in 1..4 |-> pts[k].x], j))
    /\ RatEq(value_at_t(pts, j).y, Bernstein([k \in 1..4 |-> pts[k].y], j))

\* C24: _value_at_t(points, t) is the cubic Bezier point of the four points at
\* t, in both coordinates; checked at t = 0, 1/2 and 1 on the four points of
\* every lookup table of a curve a constructor returned.
C24_ValueAtTIsCubicBezier ==
    (Constructed_BZ /\ IsBZ(curve))
    => \A s \in 1..Len(curve.lookup) :
          curve.lookup[s].n > 0
          => \A j \in {0, TSteps \div 2, TSteps} :
                IsBernsteinPoint(curve.lookup[s].pts, j)

\* the last operation ended in a fit() that raised nothing
Fitted ==
    /\ last.op \in {"construct", "add_control_point", "invert", "is_symmetric",
                    "fit", "setControlPoint", "curveType"}
    /\ ~SameValueAssigned
    /\ last.op = "curveType" => pre.kind # curve.kind
    /\ last.raised = NoErr

\* table entry j is the point p
EntryIs(tbl, j, p) ==
    /\ RatEq(Entry(tbl, j).x, Real(p.x))
    /\ RatEq(Entry(tbl, j).y, Real(p.y))

\* C25: after every fit() of a CubicBezierSpline of k control points that
\* raised nothing there are k-1 lookup tables, one per consecutive pair of
\* knots in sorted order, each of 101 entries (t = j/100, j = 0..100); entry 0
\* of table s is the centre of knot s and entry 100 the centre of knot s+1.
C25_LookupTablesSpanKnots ==
    (Fitted /\ IsBZ(curve))
    => /\ Len(curve.lookup) = Len(curve.cps) - 1
       /\ \A s \in 1..Len(curve.lookup) :
             /\ curve.lookup[s].n = LookupEntries
             /\ LookupEntries = TSteps + 1
             /\ EntryIs(curve.lookup[s], 0, curve.cps[s].center)
             /\ EntryIs(curve.lookup[s], TSteps, curve.cps[s + 1].center)

\* C25 witness: add_control_point and its fit() left three knots and two
\* tables that meet at the new knot.
C25_TwoTablesReached ==
    /\ Fitted /\ IsBZ(curve) /\ Added
    /\ Len(curve.cps) = 3 /\ Len(curve.lookup) = 2
    /\ EntryIs(curve.lookup[1], TSteps, Point2D(last.args[1], last.args[2]))
    /\ EntryIs(curve.lookup[2], 0, Point2D(last.args[1], last.args[2]))

\* z[k] is the coefficient of the k-th of the points P: 0, or the solution
\* of the tridiagonal system of P at that index
BelongsTo(z, P, k) == z[k] = ZeroZ \/ z[k] = Solved(P, k - 1)

\* C26: in every reachable CubicSpline state z has as many entries as there
\* are control points, and z[i] is the coefficient of the i-th control point
\* in sorted order: with three or more points every interior entry is the
\* one solved for the current points at that index.
C26_CoefficientsAligned ==
    (Exists /\ IsCS(curve))
    => /\ Len(curve.z) = Len(curve.points)
       /\ Ascending(curve.points)
       /\ \A k \in 1..Len(curve.z) : BelongsTo(curve.z, curve.points, k)
       /\ Len(curve.points) >= 3
            => \A k \in 2..Len(curve.z) - 1 : curve.z[k] = Solved(curve.points, k - 1)

\* C26 witness: add_control_point put a point in front of the others, every
\* point moved up one index, and the coefficient at the second index is the
\* one solved for the new list.
C26_AlignedAfterShift ==
    /\ Added /\ IsCS(curve) /\ last.raised = NoErr
    /\ Len(curve.points) >= 3
    /\ curve.points[1] = Point2D(last.args[1], last.args[2])
    /\ curve.points[2] = pre.points[1]
    /\ curve.z[2] = Solved(curve.points, 1)
    /\ curve.z[2] # Solved(pre.points, 1)

\* C27: setControlPoint(x, y, idx) of the adapter on a PiecewiseLinear or
\* CubicSpline curve with is_symmetric true that satisfies the symmetry
\* invariant keeps it for every valid idx, the middle index included: the
\* points are mirrored and an odd middle point is (0, 0).
C27_SetControlPointKeepsSymmetry ==
    (/\ last.op = "setControlPoint" /\ last.raised = NoErr
     /\ (IsPL(pre) \/ IsCS(pre))
     /\ pre.is_symmetric /\ Symmetric(pre.points))
    => Symmetric(curve.points)

Width == interval[2] - interval[1]
\* the stored x values of the table searched are not in ascending order: an
\* entry below x comes after one that is not
NotMonotone == \E i, j \in 1..Len(below) : i < j /\ ~below[i] /\ below[j]

\* C28: the binary search of CubicBezierSpline evaluate starts with an
\* interval of width 101, every iteration makes the width strictly smaller
\* and leaves it at least 1, and the loop ends, with width 1, for every x and
\* every table content, tables of non-monotone x included.
C28_SearchTerminates ==
    /\ (searching = TRUE /\ Width = LookupEntries)
    /\ [][interval' # interval => (Width' < Width /\ Width' >= 1)]_vars
    /\ [][searching => (searching' \/ Width = 1)]_vars
    /\ <>(~searching /\ Width = 1 /\ last.raised = NoErr)

\* C28 witness: the loop has ended on a table whose x values are not
\* monotone, at the interval the search of the whole call computes.
C28_SearchEnded ==
    /\ ~searching /\ Width = 1
    /\ NotMonotone
    /\ interval = <<Search(SearchTable, SearchX, 0, SearchTable.n).lo,
                    Search(SearchTable, SearchX, 0, SearchTable.n).hi>>

Ys(P) == {P[k].y : k \in 1..Len(P)}
Between(v, lo, hi) == RatLe(Real(lo), v) /\ RatLe(v, Real(hi))

\* C29: PiecewiseLinear evaluate(x), for every x, lies between the smallest
\* and the largest y of the control points, and so in [-1, 1] when every
\* control point has its y in [-1, 1].  Stated for curves that have a
\* control point.
C29_OutputWithinControlPointRange ==
    (Evaluated /\ IsPL(curve) /\ Len(curve.points) >= 1)
    => /\ out.raised = NoErr /\ out.zk = <<>>
       /\ Between(out.value, SetMin(Ys(curve.points)), SetMax(Ys(curve.points)))
       /\ (\A y \in Ys(curve.points) : -Grid <= y /\ y <= Grid)
            => Between(out.value, -Grid, Grid)

\* C29 witness: evaluate(x) interpolated inside a segment and returned a value
\* that is the y of no control point.
C29_InterpolatedInsideRange ==
    /\ Evaluated /\ IsPL(curve) /\ StrictlyInside(curve.points, ClampedX)
    /\ out.raised = NoErr
    /\ \A y \in Ys(curve.points) : ~RatEq(out.value, Real(y))
    /\ Between(out.value, SetMin(Ys(curve.points)), SetMax(Ys(curve.points)))

Dispatched == sent'.n = sent.n + 1
IndexInRange ==
    0 <= chain.current_index /\ chain.current_index < chain.chain_sequences

\* C30: in ChainFunctor with timeout == 0 and at least two chain sequences,
\* the release event that follows a press event is dispatched to the chain
\* sequence that handled the press; the sequence used changes only with a
\* press, to the next one modulo the number of sequences; and the index
\* always stays within 0..len(chain_sequences)-1.
C30_ReleaseGoesToPressSequence ==
    /\ [](chain.chain_sequences >= 1 => IndexInRange)
    /\ [][(/\ chain.timeout = 0 /\ chain.chain_sequences >= 2
           /\ Dispatched /\ sent.n >= 1)
          => /\ (sent.current /\ ~sent'.current) => sent'.seq = sent.seq
             /\ sent'.seq # sent.seq
                  => /\ sent'.current
                     /\ sent'.seq = (sent.seq + 1) % chain.chain_sequences]_vars
====
